---- MODULE Spec2Model ----
(***************************************************************************)
(* A model of src/app.py: the clear-sky irradiation calculator.  The state *)
(* is the script's inputs, the session's area collection, the form fields, *)
(* the three function caches and the tables of the latest script run.      *)
(*                                                                         *)
(* Numbers.  Real quantities (sines, irradiances, sizes) are decimal       *)
(* fixed-point numbers with one fractional digit: the real x is the        *)
(* integer Scale * x, and a product is rescaled by FMul.  Angles are whole *)
(* degrees, instants are minutes, dates are day numbers.                   *)
(*                                                                         *)
(* The pvlib functions are outside the repository.  Each is a small        *)
(* deterministic integer function of exactly the arguments the code passes *)
(* to it, so that a table computed from different arguments differs.       *)
(***************************************************************************)
EXTENDS Integers, Sequences, FiniteSets, TLC

VARIABLES
    long, lat, altitude, timezone,      \* number_input / selectbox, l.160-170
    min_date, max_date, plot_date,      \* date_input, l.174-191
    time_of_day, freq,                  \* time_input, selectbox, l.193-199
    areas,                              \* st.session_state.areas, l.151-152
    form,                               \* st.session_state["area_<field>_<idx>"]
    cd_cache,                           \* cache of calculate_data, l.33
    ja_cache,                           \* cache of join_areas, l.53
    sv_cache,                           \* cache of get_solar_vector, l.135
    data,                               \* script variable, l.203
    joined_area_data,                   \* script variable, l.205
    integrated_plot_data,               \* script variable, l.207
    sun_vec,                            \* script variable, l.212
    err,                                \* the exception that stopped the run
    provider_calls,                     \* provider-chain runs of the latest run
    join_calls,                         \* runs of the body of join_areas in it
    op,                                 \* the latest operation
    steps,                              \* operations so far
    arg, ret,                           \* argument and result of a function run alone
    hash_funcs_named                    \* how the library reads hash_funcs, l.55

inputs == <<long, lat, altitude, timezone, min_date, max_date, plot_date, time_of_day, freq>>
session == <<areas, form>>
caches == <<cd_cache, ja_cache, sv_cache>>
outputs ==
    <<data, joined_area_data, integrated_plot_data, sun_vec, err, provider_calls, join_calls>>
vars == <<inputs, session, caches, outputs, op, steps, arg, ret, hash_funcs_named>>

---------------------------------------------------------------------------
(* Bounds of the model *)

MaxAreas == 2
MaxSteps == 4
MaxChanges == 3
MaxDay == 2

(* Program constants *)

Scale == 10
max_entries == 30
MinutesPerDay == 1440
KWhDivisor == 3600000
StdPressure == 101325

---------------------------------------------------------------------------
(* Helpers *)

\* the sum of s[lo..hi], by halves
RECURSIVE SumRange(_, _, _)
SumRange(s, lo, hi) ==
    IF lo > hi THEN 0
    ELSE IF lo = hi THEN s[lo]
    ELSE SumRange(s, lo, (lo + hi) \div 2) + SumRange(s, (lo + hi) \div 2 + 1, hi)

SumSeq(s) == SumRange(s, 1, Len(s))

Max2(a, b) == IF a >= b THEN a ELSE b

Abs(x) == IF x < 0 THEN -x ELSE x

SetMin(S) == CHOOSE x \in S : \A y \in S : x <= y

SetMax(S) == CHOOSE x \in S : \A y \in S : x >= y

\* product of two fixed-point numbers
FMul(a, b) == (a * b) \div Scale

None == [none |-> TRUE]

---------------------------------------------------------------------------
(* Geometry, l.17-26 *)

Deg(a) == a % 360

\* np.sin(np.radians(a)), to one decimal digit
SinDeg(a) ==
    CASE Deg(a) = 0 -> 0
      [] Deg(a) = 1 -> 0
      [] Deg(a) = 10 -> 2
      [] Deg(a) = 11 -> 2
      [] Deg(a) = 18 -> 3
      [] Deg(a) = 72 -> 10
      [] Deg(a) = 80 -> 10
      [] Deg(a) = 90 -> 10
      [] Deg(a) = 180 -> 0
      [] Deg(a) = 270 -> -10

\* np.cos(np.radians(a)), to one decimal digit
CosDeg(a) ==
    CASE Deg(a) = 0 -> 10
      [] Deg(a) = 1 -> 10
      [] Deg(a) = 10 -> 10
      [] Deg(a) = 11 -> 10
      [] Deg(a) = 18 -> 10
      [] Deg(a) = 72 -> 3
      [] Deg(a) = 80 -> 2
      [] Deg(a) = 90 -> 0
      [] Deg(a) = 180 -> -10
      [] Deg(a) = 270 -> 0

direction_vec(elevation, azimuth) ==
    LET se == SinDeg(elevation)
        ce == CosDeg(elevation)
        sa == SinDeg(azimuth)
        ca == CosDeg(azimuth)
    IN  <<FMul(sa, ce), FMul(ca, ce), se>>

Dot(v, w) == FMul(v[1], w[1]) + FMul(v[2], w[2]) + FMul(v[3], w[3])

irradiation_factor(sun_vec_, window_vec) == Max2(Dot(sun_vec_, window_vec), 0)

---------------------------------------------------------------------------
(* The provider (pvlib), l.29-46 *)

\* pvlib.atmosphere.alt2pres at the altitudes of the model, in Pa
calculate_pressure(alt) ==
    CASE alt = 0 -> 101325
      [] alt = 60 -> 100606
      [] alt = 1000 -> 89875

UtcOffset(tz) == IF tz = "Europe/Berlin" THEN 60 ELSE 0

FreqMinutes(f) ==
    CASE f = "10min" -> 10
      [] f = "30min" -> 30
      [] f = "1h" -> 60

\* pd.date_range(start, end, freq, tz): local instants, in minutes
date_range(start, end, f) ==
    LET first == start * MinutesPerDay
        last == end * MinutesPerDay
        n == IF last < first THEN 0 ELSE (last - first) \div FreqMinutes(f) + 1
    IN  [k \in 1..n |-> first + (k - 1) * FreqMinutes(f)]

\* hour of the solar day at UTC minute t and the given longitude
SolarHour(t, longitude) == ((t + 4 * longitude) \div 60) % 24

\* pvlib.solarposition.get_solarposition(time, latitude, longitude) at one
\* UTC instant
get_solarposition(t, latitude, longitude) ==
    LET sh == SolarHour(t, longitude)
        el == IF sh \in 6..17
              THEN IF sh \in 10..13
                   THEN IF Abs(latitude) < 30 THEN 90 ELSE 80
                   ELSE 18
              ELSE -90
        az == IF sh < 10 THEN 90
              ELSE IF sh <= 13 THEN IF latitude >= 0 THEN 180 ELSE 0
              ELSE 270
    IN  [apparent_zenith |-> 90 - el, apparent_elevation |-> el, azimuth |-> az]

get_relative_airmass(zenith) ==
    CASE zenith = 0 -> 10
      [] zenith = 10 -> 10
      [] zenith = 72 -> 32
      [] OTHER -> 0

get_absolute_airmass(airmass, pressure) == (airmass * pressure) \div StdPressure

lookup_linke_turbidity(t, latitude, longitude) == 30

get_extra_radiation(t) == 14

\* pvlib.clearsky.ineichen, one row
ineichen(zenith, airmass, linke_turbidity, alt, dni_extra) ==
    LET up == zenith < 90
        dni == IF up THEN Max2(0, 40 - airmass) + alt \div 200 ELSE 0
        dhi == IF up THEN linke_turbidity \div 10 + alt \div 500 ELSE 0
        ghi == IF up THEN FMul(dni, CosDeg(zenith)) + dhi ELSE 0
    IN  [dni |-> dni, dhi |-> dhi, ghi |-> ghi]

---------------------------------------------------------------------------
(* Tables: [index |-> instants, columns |-> [name |-> values]] *)

BaseColumns == {"dni", "dhi", "ghi", "apparent_elevation", "azimuth"}

Rows(t) == 1..Len(t.index)

\* the table with column c set to values v (added or overwritten)
SetColumn(t, c, v) ==
    [t EXCEPT !.columns = [x \in DOMAIN t.columns \cup {c} |->
                              IF x = c THEN v ELSE t.columns[x]]]

\* the body of calculate_data, l.37-50; alt is the global altitude of l.45
calculate_data(min_date_, max_date_, freq_, latitude, longitude, tz, pressure, alt) ==
    LET times == date_range(min_date_, max_date_, freq_)
        utc(k) == times[k] - UtcOffset(tz)
        solpos(k) == get_solarposition(utc(k), latitude, longitude)
        airmass(k) == get_absolute_airmass(
                          get_relative_airmass(solpos(k).apparent_zenith), pressure)
        sky(k) == ineichen(solpos(k).apparent_zenith, airmass(k),
                           lookup_linke_turbidity(utc(k), latitude, longitude),
                           alt, get_extra_radiation(utc(k)))
    IN  [index |-> times,
         columns |->
            [c \in BaseColumns |->
                [k \in 1..Len(times) |->
                    CASE c = "dni" -> sky(k).dni
                      [] c = "dhi" -> sky(k).dhi
                      [] c = "ghi" -> sky(k).ghi
                      [] c = "apparent_elevation" -> solpos(k).apparent_elevation
                      [] c = "azimuth" -> solpos(k).azimuth]]]

---------------------------------------------------------------------------
(* Areas: a dict is a function on the keys it holds *)

EmptyArea == [k \in {} |-> 0]

Get(a, k, default) == IF k \in DOMAIN a THEN a[k] ELSE default

SetKey(a, k, v) == [x \in DOMAIN a \cup {k} |-> IF x = k THEN v ELSE a[x]]

PopKey(a, k) == [x \in DOMAIN a \ {k} |-> a[x]]

\* str(float) of a size given in tenths
FloatStr(s) == ToString(s \div Scale) \o "." \o ToString(s % Scale)

FactorCol(i) == "area_" \o ToString(i) \o "_direction_factor"

IrradiationCol(i) == "area_" \o ToString(i) \o "_irradiation"

IntegratedCol(i) == "area_" \o ToString(i) \o "_integrated"

---------------------------------------------------------------------------
(* join_areas, l.53-77 *)

KeyError == [err |-> "KeyError"]

\* the hash function of the areas argument, l.55-57
FingerprintOne(a) ==
    IF {"azimuth", "elevation", "size"} \subseteq DOMAIN a
    THEN ToString(a["azimuth"]) \o ToString(a["elevation"]) \o FloatStr(a["size"])
    ELSE "KeyError"

Fingerprint(as) ==
    IF \E i \in 1..Len(as) : ~({"azimuth", "elevation", "size"} \subseteq DOMAIN as[i])
    THEN KeyError
    ELSE [err |-> "none", key |-> [i \in 1..Len(as) |-> FingerprintOne(as[i])]]

\* l.64-66: the factor of every row for an area looking along area_direction
DirectionFactors(t, area_direction) ==
    [k \in Rows(t) |->
        irradiation_factor(
            direction_vec(t.columns["apparent_elevation"][k], t.columns["azimuth"][k]),
            area_direction)]

\* l.68-70, on the table that holds the factors
Irradiation(t, area, i) ==
    [k \in Rows(t) |->
        FMul(Get(area, "size", 0),
             FMul(t.columns[FactorCol(i)][k], t.columns["dni"][k])
               + t.columns["dhi"][k])]

WithIrradiation(t, area, i) == SetColumn(t, IrradiationCol(i), Irradiation(t, area, i))

\* one turn of the loop of l.62-70; i counts from 0 as enumerate does
JoinOne(t, area, i) ==
    WithIrradiation(
        SetColumn(t, FactorCol(i),
            DirectionFactors(t, direction_vec(Get(area, "elevation", 0),
                                              Get(area, "azimuth", 0)))),
        area, i)

RECURSIVE JoinLoop(_, _, _)
JoinLoop(t, as, i) ==
    IF i >= Len(as) THEN t ELSE JoinLoop(JoinOne(t, as[i + 1], i), as, i + 1)

\* l.72-75
\* a join that sums only when there are several areas
WithSumOfSeveral(t, as) ==
    IF Len(as) > 1
    THEN SetColumn(t, "irradiation_sum",
             [k \in Rows(t) |->
                 SumSeq([ii \in 1..Len(as) |-> t.columns[IrradiationCol(ii - 1)][k]])])
    ELSE t

\* l.72-75: the sum column, for one area or more
WithSum(t, as) ==
    IF as # <<>>
    THEN SetColumn(t, "irradiation_sum",
             [k \in Rows(t) |->
                 SumSeq([ii \in 1..Len(as) |-> t.columns[IrradiationCol(ii - 1)][k]])])
    ELSE t

\* the body of join_areas, l.62-77: the table _base_data is left holding
JoinBody(base, as) == WithSum(JoinLoop(base, as, 0), as)

---------------------------------------------------------------------------
(* integrate_joined_data, l.80-102 *)

\* scipy.integrate.trapezoid(g, dx=dx)
trapezoid(g, dx) ==
    SumSeq([k \in 1..(Len(g) - 1) |-> (dx * (g[k] + g[k + 1])) \div 2])

\* Timedelta.seconds of a duration in minutes
Seconds(minutes) == (minutes * 60) % (MinutesPerDay * 60)

DayOf(t) == t \div MinutesPerDay

\* joined_data.groupby(pd.Grouper(freq="D")): the days from the first to the last
GroupDays(index) ==
    IF index = <<>> THEN <<>>
    ELSE LET d0 == DayOf(index[1])
             d1 == DayOf(index[Len(index)])
         IN  [k \in 1..(d1 - d0 + 1) |-> d0 + k - 1]

\* the values of column col that fall on day d
DayGroup(t, col, d) ==
    LET S == {k \in Rows(t) : DayOf(t.index[k]) = d}
    IN  IF S = {} THEN <<>> ELSE SubSeq(t.columns[col], SetMin(S), SetMax(S))

\* x / 3_600_000, kept exact
Over(x, d) == [num |-> x, den |-> d]

DivAll(s, d) == [k \in 1..Len(s) |-> Over(s[k], d)]

\* .iloc[:-1]
\* a result that keeps its last row
KeepLast(s) == s

\* l.102: .iloc[:-1]
DropLast(s) == IF s = <<>> THEN <<>> ELSE SubSeq(s, 1, Len(s) - 1)

\* l.86-87: dx, or the exception: [-1] of an empty diff, the assert on NaT
\* dx without the assert of l.87: NaT counts as a step of 0
StepUnchecked(index) ==
    IF Len(index) = 0 THEN [err |-> "IndexError"]
    ELSE IF Len(index) = 1 THEN [err |-> "none", dx |-> 0]
    ELSE [err |-> "none", dx |-> index[2] - index[1]]

StepOf(index) ==
    IF Len(index) = 0 THEN [err |-> "IndexError"]
    ELSE IF Len(index) = 1 THEN [err |-> "AssertionError"]
    ELSE [err |-> "none", dx |-> index[2] - index[1]]

\* l.91-93: one value a day
IntegratedColumn(joined_data, i, dx) ==
    [k \in 1..Len(GroupDays(joined_data.index)) |->
        trapezoid(DayGroup(joined_data, IrradiationCol(i), GroupDays(joined_data.index)[k]),
                  Seconds(dx))]

\* all_cols, l.84-100
AllCols(n) ==
    {IntegratedCol(i) : i \in 0..(n - 1)} \cup (IF n > 1 THEN {"integrated_sum"} ELSE {})

\* pdf, l.96-99
Pdf(joined_data, n, dx) ==
    [c \in AllCols(n) |->
        IF c = "integrated_sum"
        THEN [k \in 1..Len(GroupDays(joined_data.index)) |->
                 SumSeq([ii \in 1..n |-> IntegratedColumn(joined_data, ii - 1, dx)[k]])]
        ELSE IntegratedColumn(joined_data,
                              CHOOSE j \in 0..(n - 1) : IntegratedCol(j) = c, dx)]

\* l.102; a frame of no columns has no rows
IntegratedTable(joined_data, n, pdf) ==
    [index |-> IF n = 0 THEN <<>> ELSE DropLast(GroupDays(joined_data.index)),
     columns |-> [c \in AllCols(n) |-> DivAll(DropLast(pdf[c]), KWhDivisor)]]

\* as is st.session_state.areas, read at l.82
integrate_joined_data(joined_data, as) ==
    IF StepOf(joined_data.index).err # "none"
    THEN [err |-> StepOf(joined_data.index).err]
    ELSE [err |-> "none",
          val |-> IntegratedTable(joined_data, Len(as),
                      Pdf(joined_data, Len(as), StepOf(joined_data.index).dx))]

---------------------------------------------------------------------------
(* get_solar_vector, l.135-148 *)

\* datetime.combine(plot_date, time_of_day): a naive instant, read as UTC
Combine(plot_date_, time_of_day_) == plot_date_ * MinutesPerDay + time_of_day_

\* the body: the provider is called with (time, long, lat), l.137-139
get_solar_vector(plot_date_, time_of_day_, long_, lat_) ==
    LET solar_position ==
            get_solarposition(Combine(plot_date_, time_of_day_), long_, lat_)
    IN  direction_vec(solar_position.apparent_elevation, solar_position.azimuth)

---------------------------------------------------------------------------
(* The caches of st.cache_data *)

\* a cache with max_entries: entries in order of use, the latest last
Lookup(cache, key) == {i \in 1..Len(cache) : cache[i].key = key}

Without(cache, key) == SelectSeq(cache, LAMBDA e : e.key # key)

\* the cache after key was used and holds val: the least recently used entry
\* goes when the cache is full
Touch(cache, key, val) ==
    LET c == Append(Without(cache, key), [key |-> key, val |-> val])
    IN  IF Len(c) > max_entries THEN Tail(c) ELSE c

\* a key of calculate_data that leaves the pressure out
CalculateDataKeyWithoutPressure(p, pressure) ==
    <<p.min_date, p.max_date, p.freq, p.lat, p.long, p.timezone>>

\* the key of calculate_data: its seven arguments, l.34-36
CalculateDataKey(p, pressure) ==
    <<p.min_date, p.max_date, p.freq, p.lat, p.long, p.timezone, pressure>>

\* the key of join_areas, l.53-59: _base_data is not hashed.  hash_funcs maps
\* the name "areas" to the hash function.  Where the library reads a key of
\* hash_funcs as the name of a parameter, areas is hashed by that function;
\* where it reads it as the name of a type, no value has the type "areas" and
\* the list is hashed by its content.  The source does not fix the library.
JoinAreasKey(as) ==
    IF hash_funcs_named THEN Fingerprint(as) ELSE [err |-> "none", key |-> as]

\* the key of get_solar_vector, l.136
SolarVectorKey(p) == <<p.plot_date, p.time_of_day, p.long, p.lat>>

---------------------------------------------------------------------------
(* One run of the script, l.202-212, from inputs p, the areas and the caches *)

\* calculate_data behind its cache, l.33-50 and l.203
CachedCalculateData(cdc, p, pressure) ==
    IF Lookup(cdc, CalculateDataKey(p, pressure)) # {}
    THEN [hit |-> TRUE,
          val |-> cdc[CHOOSE i \in Lookup(cdc, CalculateDataKey(p, pressure)) : TRUE].val]
    ELSE [hit |-> FALSE,
          val |-> calculate_data(p.min_date, p.max_date, p.freq, p.lat, p.long,
                                 p.timezone, pressure, p.altitude)]

\* join_areas behind its cache, l.53-77 and l.205
CachedJoinAreas(jac, base, as, ja_key) ==
    IF ja_key.err # "none" THEN [err |-> ja_key.err, hit |-> FALSE, val |-> None]
    ELSE IF ja_key.key \in DOMAIN jac
    THEN [err |-> "none", hit |-> TRUE, val |-> jac[ja_key.key]]
    ELSE [err |-> "none", hit |-> FALSE, val |-> JoinBody(base, as)]

\* get_solar_vector behind its cache, l.135-148 and l.212
CachedSolarVector(svc, p) ==
    IF Lookup(svc, SolarVectorKey(p)) # {}
    THEN svc[CHOOSE i \in Lookup(svc, SolarVectorKey(p)) : TRUE].val
    ELSE get_solar_vector(p.plot_date, p.time_of_day, p.long, p.lat)

\* the state the run leaves; cd, ja, integrated and vec are what l.203, 205,
\* 207 and 212 returned
ScriptEnd(p, as, cdc, jac, svc, pressure, ja_key, cd, ja, integrated, vec) ==
    [cd_cache |-> Touch(cdc, CalculateDataKey(p, pressure), cd.val),
     ja_cache |-> IF ja.err = "none" /\ ~ja.hit
                  THEN [k \in DOMAIN jac \cup {ja_key.key} |->
                           IF k = ja_key.key THEN ja.val ELSE jac[k]]
                  ELSE jac,
     sv_cache |-> IF integrated.err = "none"
                  THEN Touch(svc, SolarVectorKey(p), vec)
                  ELSE svc,
     \* the body of join_areas extends the table it is given, in place
     data |-> IF ja.err = "none" /\ ~ja.hit THEN ja.val ELSE cd.val,
     joined_area_data |-> ja.val,
     integrated_plot_data |-> IF integrated.err = "none" THEN integrated.val ELSE None,
     sun_vec |-> IF integrated.err = "none" THEN vec ELSE None,
     err |-> integrated.err,
     provider_calls |-> IF cd.hit THEN 0 ELSE 1,
     join_calls |-> IF ja.err = "none" /\ ~ja.hit THEN 1 ELSE 0]

ScriptIntegrate(p, as, cdc, jac, svc, pressure, ja_key, cd, ja) ==
    ScriptEnd(p, as, cdc, jac, svc, pressure, ja_key, cd, ja,
              IF ja.err = "none" THEN integrate_joined_data(ja.val, as)
                                 ELSE [err |-> ja.err],
              CachedSolarVector(svc, p))

ScriptJoin(p, as, cdc, jac, svc, pressure, ja_key, cd) ==
    ScriptIntegrate(p, as, cdc, jac, svc, pressure, ja_key, cd,
                    CachedJoinAreas(jac, cd.val, as, ja_key))

ScriptData(p, as, cdc, jac, svc, pressure) ==
    ScriptJoin(p, as, cdc, jac, svc, pressure, JoinAreasKey(as),
               CachedCalculateData(cdc, p, pressure))

Script(p, as, cdc, jac, svc) ==
    ScriptData(p, as, cdc, jac, svc, calculate_pressure(p.altitude))

Params(lo, la, al, tz, mi, ma, pl, ti, fr) ==
    [long |-> lo, lat |-> la, altitude |-> al, timezone |-> tz, min_date |-> mi,
     max_date |-> ma, plot_date |-> pl, time_of_day |-> ti, freq |-> fr]

CurrentParams ==
    Params(long, lat, altitude, timezone, min_date, max_date, plot_date, time_of_day, freq)

\* the script runs with the inputs and areas the operation leaves
Leaves(r) ==
    /\ cd_cache' = r.cd_cache
    /\ ja_cache' = r.ja_cache
    /\ sv_cache' = r.sv_cache
    /\ data' = r.data
    /\ joined_area_data' = r.joined_area_data
    /\ integrated_plot_data' = r.integrated_plot_data
    /\ sun_vec' = r.sun_vec
    /\ err' = r.err
    /\ provider_calls' = r.provider_calls
    /\ join_calls' = r.join_calls

Rerun ==
    Leaves(Script(Params(long', lat', altitude', timezone', min_date', max_date',
                         plot_date', time_of_day', freq'),
                  areas', cd_cache, ja_cache, sv_cache))

---------------------------------------------------------------------------
(* Inputs of the model *)

FreqOptions == {"10min", "30min", "1h"}

\* the two coarser options, for the runs of the whole script
CoarseFreqs == {"30min", "1h"}

Longitudes == {7, 100}

Latitudes == {51, -20}

Altitudes == {60, 1000}

Timezones == {"Europe/Berlin", "UTC"}

TimesOfDay == {720, 0}

\* the days the date inputs are set to
Dates == {0, 1, 2}

\* what is typed into a form where only the callbacks run
EditValues ==
    {[text |-> "", azimuth |-> 0, elevation |-> 1, size |-> 5],
     [text |-> "roof", azimuth |-> 0, elevation |-> 11, size |-> 105]}

FormDefault == [text |-> "", azimuth |-> 0, elevation |-> 0, size |-> 10]

FormValues ==
    {[text |-> t, azimuth |-> 0, elevation |-> e, size |-> s] :
        t \in {"", "roof"}, e \in {1, 11}, s \in {5, 105}}

Defaults == Params(7, 51, 60, "Europe/Berlin", 0, 1, 0, 720, "30min")

NoOp == [name |-> "start", idx |-> -1]

\* the first run of the script in a new session
Starts(r) ==
    /\ cd_cache = r.cd_cache
    /\ ja_cache = r.ja_cache
    /\ sv_cache = r.sv_cache
    /\ data = r.data
    /\ joined_area_data = r.joined_area_data
    /\ integrated_plot_data = r.integrated_plot_data
    /\ sun_vec = r.sun_vec
    /\ err = r.err
    /\ provider_calls = r.provider_calls
    /\ join_calls = r.join_calls

InitApp ==
    /\ hash_funcs_named \in BOOLEAN
    /\ long = Defaults.long
    /\ lat = Defaults.lat
    /\ altitude = Defaults.altitude
    /\ timezone = Defaults.timezone
    /\ min_date = Defaults.min_date
    /\ max_date = Defaults.max_date
    /\ plot_date = Defaults.plot_date
    /\ time_of_day = Defaults.time_of_day
    /\ freq = Defaults.freq
    /\ areas = <<>>
    /\ form = [i \in 0..(MaxAreas - 1) |-> FormDefault]
    /\ Starts(Script(Defaults, <<>>, <<>>, [k \in {} |-> None], <<>>))
    /\ op = NoOp
    /\ steps = 0

Init == InitApp /\ arg = None /\ ret = None

Step(name, idx) ==
    /\ steps < MaxSteps
    /\ steps' = steps + 1
    /\ op' = [name |-> name, idx |-> idx]
    /\ UNCHANGED <<arg, ret, hash_funcs_named>>

---------------------------------------------------------------------------
(* The operations on the areas, l.114-132 *)

add_area(as) == Append(as, EmptyArea)

\* a removal that always takes the last area
remove_last(as, idx) == SubSeq(as, 1, Len(as) - 1)

\* list.pop(idx), idx from 0
remove_area(as, idx) == [k \in 1..(Len(as) - 1) |-> IF k <= idx THEN as[k] ELSE as[k + 1]]

\* the dict of sync_i after l.123-132
SyncedArea(area, f) ==
    LET labelled == IF f.text # ""
                    THEN SetKey(area, "label", f.text)
                    ELSE PopKey(area, "label")
    IN  SetKey(SetKey(SetKey(labelled, "azimuth", f.azimuth),
                      "elevation", f.elevation),
               "size", f.size)

sync_i(as, fm, idx) == [as EXCEPT ![idx + 1] = SyncedArea(as[idx + 1], fm[idx])]

\* the callbacks; idx is the position the button or form was drawn for
AddAreaCall ==
    /\ Len(areas) < MaxAreas
    /\ areas' = add_area(areas)
    /\ form' = form

RemoveAreaCall(idx) ==
    /\ idx < Len(areas)
    /\ areas' = remove_area(areas, idx)
    /\ form' = form

SyncCall(idx) ==
    /\ idx < Len(areas)
    /\ areas' = sync_i(areas, form', idx)

\* the buttons and forms of l.276-323 are drawn by a run that gets to them
Drawn == err = "none"

\* a callback, then the script
AddArea == Drawn /\ AddAreaCall /\ Step("add_area", -1) /\ UNCHANGED inputs /\ Rerun

RemoveArea(idx) ==
    Drawn /\ RemoveAreaCall(idx) /\ Step("remove_area", idx) /\ UNCHANGED inputs /\ Rerun

\* the form of area idx is filled with f and submitted: Save calls sync_i
Save(idx, f) ==
    /\ Drawn
    /\ idx < Len(areas)
    /\ form' = [form EXCEPT ![idx] = f]
    /\ SyncCall(idx)
    /\ Step("sync_i", idx)
    /\ UNCHANGED inputs
    /\ Rerun

\* an input widget changes and the script runs
SetInputs(p) ==
    /\ long' = p.long
    /\ lat' = p.lat
    /\ altitude' = p.altitude
    /\ timezone' = p.timezone
    /\ min_date' = p.min_date
    /\ max_date' = p.max_date
    /\ plot_date' = p.plot_date
    /\ time_of_day' = p.time_of_day
    /\ freq' = p.freq
    /\ UNCHANGED session
    /\ Rerun

SetLong(v) ==
    v # long /\ Step("long", -1) /\ SetInputs([CurrentParams EXCEPT !.long = v])

SetLat(v) ==
    v # lat /\ Step("lat", -1) /\ SetInputs([CurrentParams EXCEPT !.lat = v])

SetAltitude(v) ==
    v # altitude /\ Step("altitude", -1) /\ SetInputs([CurrentParams EXCEPT !.altitude = v])

SetTimezone(v) ==
    v # timezone /\ Step("timezone", -1) /\ SetInputs([CurrentParams EXCEPT !.timezone = v])

\* dates are kept with min_date <= plot_date <= max_date, l.189-190
SetMinDate(v) ==
    /\ v # min_date
    /\ v <= plot_date
    /\ Step("min_date", -1)
    /\ SetInputs([CurrentParams EXCEPT !.min_date = v])

SetMaxDate(v) ==
    /\ v # max_date
    /\ v >= plot_date
    /\ Step("max_date", -1)
    /\ SetInputs([CurrentParams EXCEPT !.max_date = v])

SetPlotDate(v) ==
    /\ v # plot_date
    /\ v \in min_date..max_date
    /\ Step("plot_date", -1)
    /\ SetInputs([CurrentParams EXCEPT !.plot_date = v])

SetTimeOfDay(v) ==
    /\ v # time_of_day
    /\ Step("time_of_day", -1)
    /\ SetInputs([CurrentParams EXCEPT !.time_of_day = v])

SetFreq(v) ==
    v # freq /\ Step("freq", -1) /\ SetInputs([CurrentParams EXCEPT !.freq = v])

---------------------------------------------------------------------------
(* Spec: the areas are edited while frequency and altitude change *)

Next ==
    \/ AddArea
    \/ \E idx \in 0..(MaxAreas - 1) : RemoveArea(idx)
    \/ \E idx \in 0..(MaxAreas - 1) : \E f \in {v \in FormValues : v.text = ""} : Save(idx, f)
    \/ \E f \in CoarseFreqs : SetFreq(f)
    \/ \E a \in Altitudes : SetAltitude(a)

Spec == Init /\ [][Next]_vars

---------------------------------------------------------------------------
(* SpecParams: every input changes, no area is defined *)

NextParams ==
    \/ \E v \in Longitudes : steps < MaxChanges /\ SetLong(v)
    \/ \E v \in Latitudes : steps < MaxChanges /\ SetLat(v)
    \/ \E v \in Altitudes : steps < MaxChanges /\ SetAltitude(v)
    \/ \E v \in Timezones : steps < MaxChanges /\ SetTimezone(v)
    \/ \E v \in Dates \ {2} : steps < MaxChanges /\ SetMinDate(v)
    \/ \E v \in Dates \ {0} : steps < MaxChanges /\ SetMaxDate(v)
    \/ \E v \in Dates : steps < MaxChanges /\ SetPlotDate(v)
    \/ \E v \in TimesOfDay : steps < MaxChanges /\ SetTimeOfDay(v)
    \/ \E v \in CoarseFreqs : steps < MaxChanges /\ SetFreq(v)

\* no area is added here, and the key of join_areas for no area is the empty
\* list however hash_funcs is read
InitParams == Init /\ hash_funcs_named

SpecParams == InitParams /\ [][NextParams]_vars

---------------------------------------------------------------------------
(* SpecAreas: the callbacks alone, on any form contents *)

Called(name, idx) ==
    /\ op' = [name |-> name, idx |-> idx]
    /\ UNCHANGED <<inputs, caches, outputs, steps, arg, ret, hash_funcs_named>>

OnAddArea == AddAreaCall /\ Called("add_area", -1)

OnRemoveArea(idx) == RemoveAreaCall(idx) /\ Called("remove_area", idx)

\* a form field is typed into; nothing is submitted
EditField(idx, f) ==
    /\ idx < Len(areas)
    /\ f # form[idx]
    /\ form' = [form EXCEPT ![idx] = f]
    /\ areas' = areas
    /\ Called("edit", idx)

OnSave(idx) == form' = form /\ SyncCall(idx) /\ Called("sync_i", idx)

NextAreas ==
    \/ OnAddArea
    \/ \E idx \in 0..(MaxAreas - 1) : OnRemoveArea(idx)
    \/ \E idx \in 0..(MaxAreas - 1) : \E f \in EditValues : EditField(idx, f)
    \/ \E idx \in 0..(MaxAreas - 1) : OnSave(idx)

\* the script does not run between the callbacks
InitAreas == Init /\ hash_funcs_named

SpecAreas == InitAreas /\ [][NextAreas]_vars

---------------------------------------------------------------------------
(* SpecIntegrate: integrate_joined_data alone, on the joined table of any *)
(* window and of any committed areas                                      *)

Committed == {SyncedArea(EmptyArea, f) : f \in {v \in FormValues : v.text = ""}}

AreaLists(S) == UNION {[1..n -> S] : n \in 0..MaxAreas}

InitIntegrate ==
    /\ hash_funcs_named \in BOOLEAN
    /\ long = Defaults.long
    /\ lat = Defaults.lat
    /\ altitude = Defaults.altitude
    /\ timezone = Defaults.timezone
    /\ min_date \in 0..MaxDay
    /\ max_date \in 0..MaxDay
    /\ plot_date = min_date
    /\ time_of_day = Defaults.time_of_day
    /\ freq \in FreqOptions
    /\ areas \in AreaLists({a \in Committed : a["size"] = 5})
    /\ form = [i \in 0..(MaxAreas - 1) |-> FormDefault]
    /\ cd_cache = <<>>
    /\ ja_cache = [k \in {} |-> None]
    /\ sv_cache = <<>>
    /\ data = calculate_data(min_date, max_date, freq, lat, long, timezone,
                             calculate_pressure(altitude), altitude)
    /\ joined_area_data = JoinBody(data, areas)
    /\ integrated_plot_data = None
    /\ sun_vec = None
    /\ err = "none"
    /\ provider_calls = 1
    /\ join_calls = 1
    /\ op = NoOp
    /\ steps = 0
    /\ arg = None
    /\ ret = None

Integrate ==
    /\ op = NoOp
    /\ op' = [name |-> "integrate_joined_data", idx |-> -1]
    /\ ret' = integrate_joined_data(joined_area_data, areas)
    /\ err' = ret'.err
    /\ integrated_plot_data' = IF ret'.err = "none" THEN ret'.val ELSE None
    /\ UNCHANGED <<inputs, session, caches, data, joined_area_data, sun_vec,
                   provider_calls, join_calls, steps, arg, hash_funcs_named>>

SpecIntegrate == InitIntegrate /\ [][Integrate]_vars

---------------------------------------------------------------------------
(* SpecFingerprint: the hash function of l.55-57 alone, on two collections *)

InitFingerprint ==
    /\ InitApp
    /\ arg \in AreaLists(Committed) \X AreaLists(Committed)
    /\ ret = None

Hash ==
    /\ op = NoOp
    /\ op' = [name |-> "hash", idx |-> -1]
    /\ ret' = <<Fingerprint(arg[1]), Fingerprint(arg[2])>>
    /\ UNCHANGED <<inputs, session, caches, outputs, steps, arg, hash_funcs_named>>

SpecFingerprint == InitFingerprint /\ [][Hash]_vars

---------------------------------------------------------------------------
(* Properties *)

\* what calculate_data computes from the inputs as they are now
FreshBase ==
    calculate_data(min_date, max_date, freq, lat, long, timezone,
                   calculate_pressure(altitude), altitude)

Joined == err # "KeyError"

\* C1: whenever join_areas returned, the table it returned is the projection
\* of the current base series onto the current areas, never a table computed
\* from another base series.
C1_JoinedIsCurrent == Joined => joined_area_data = JoinBody(FreshBase, areas)

\* C2: join_areas does not change the table it is given: after the call the
\* base table of the script has exactly the columns dni, dhi, ghi,
\* apparent_elevation and azimuth.
C2_BaseKeepsItsColumns == Joined => DOMAIN data.columns = BaseColumns

SumIsRowSum(t, as) ==
    IF as = <<>> THEN "irradiation_sum" \notin DOMAIN t.columns
    ELSE /\ "irradiation_sum" \in DOMAIN t.columns
         /\ \A i \in 0..(Len(as) - 1) :
                {FactorCol(i), IrradiationCol(i)} \subseteq DOMAIN t.columns
         /\ \A k \in Rows(t) :
                /\ t.columns["irradiation_sum"][k]
                     = SumSeq([i \in 1..Len(as) |-> t.columns[IrradiationCol(i - 1)][k]])
                /\ \A i \in 1..Len(as) :
                       t.columns[IrradiationCol(i - 1)][k]
                         = FMul(Get(as[i], "size", 0),
                                FMul(t.columns[FactorCol(i - 1)][k], t.columns["dni"][k])
                                  + t.columns["dhi"][k])

\* C4: the table the body of join_areas computes for one area or more has an
\* irradiation_sum column equal, in every row, to the sum of the
\* area_i_irradiation columns, each size_i * (factor_i * dni + dhi); for no
\* area it has no irradiation_sum column.
C4_SumIsRowSum == join_calls = 1 => SumIsRowSum(joined_area_data, areas)

\* C4 witness: the body ran for exactly one area and the sum is not all zero.
C4_Witness ==
    /\ join_calls = 1
    /\ Len(areas) = 1
    /\ \E k \in Rows(joined_area_data) : joined_area_data.columns["irradiation_sum"][k] > 0

---------------------------------------------------------------------------

\* the transition of one run: the key of the run is in the cache before it
CacheHit == Lookup(cd_cache, CalculateDataKey(CurrentParams', calculate_pressure(altitude'))) # {}

Stored ==
    cd_cache[CHOOSE i \in Lookup(cd_cache,
                 CalculateDataKey(CurrentParams', calculate_pressure(altitude'))) : TRUE].val

\* C7: a call of calculate_data whose seven arguments are those of an earlier
\* call still in the cache runs no provider chain, returns the table stored
\* then, and that table is what a fresh computation from the current inputs,
\* the current altitude included, gives.
C7_CacheHitIsFresh ==
    [][CacheHit => /\ provider_calls' = 0
                   /\ data' = Stored
                   /\ data' = FreshBase']_vars

\* C7 witness: an argument of calculate_data was changed back and the run
\* took the table from the cache.
C7_Witness ==
    /\ steps >= 2
    /\ op.name \in {"long", "lat", "altitude", "timezone", "min_date", "max_date", "freq"}
    /\ provider_calls = 0

\* C8: get_solar_vector asks the provider for the position at the latitude
\* and longitude of the site, as calculate_data does, so the vector is that
\* of the apparent elevation and azimuth at (instant, lat, long).
C8_SolarVectorOfSite ==
    err = "none" =>
        sun_vec = direction_vec(
            get_solarposition(Combine(plot_date, time_of_day), lat, long).apparent_elevation,
            get_solarposition(Combine(plot_date, time_of_day), lat, long).azimuth)

---------------------------------------------------------------------------

AreaKeys == {"label", "azimuth", "elevation", "size"}

\* C9: the areas change only by add, remove and commit: typing into a form
\* changes no area; sync_i(idx) changes the area at idx alone, setting its
\* azimuth, elevation and size from the form of idx and its label (removed
\* when the field is empty); remove_area(idx) deletes the area at idx and
\* moves every later area down by one, unchanged; add_area appends an empty
\* area.
C9_AreasFrame ==
    [][/\ areas' # areas => op'.name \in {"add_area", "remove_area", "sync_i"}
       /\ op'.name = "edit" => areas' = areas
       /\ op'.name = "add_area" =>
              /\ Len(areas') = Len(areas) + 1
              /\ \A j \in 1..Len(areas) : areas'[j] = areas[j]
              /\ DOMAIN areas'[Len(areas')] = {}
       /\ op'.name = "remove_area" =>
              /\ Len(areas') = Len(areas) - 1
              /\ \A j \in 1..Len(areas') :
                     areas'[j] = IF j <= op'.idx THEN areas[j] ELSE areas[j + 1]
       /\ op'.name = "sync_i" =>
              /\ Len(areas') = Len(areas)
              /\ \A j \in 1..Len(areas) : j # op'.idx + 1 => areas'[j] = areas[j]
              /\ DOMAIN areas'[op'.idx + 1] =
                     {"azimuth", "elevation", "size"}
                       \cup (IF form[op'.idx].text # "" THEN {"label"} ELSE {})
              /\ areas'[op'.idx + 1]["azimuth"] = form[op'.idx].azimuth
              /\ areas'[op'.idx + 1]["elevation"] = form[op'.idx].elevation
              /\ areas'[op'.idx + 1]["size"] = form[op'.idx].size
              /\ form[op'.idx].text # "" =>
                     areas'[op'.idx + 1]["label"] = form[op'.idx].text]_vars

\* C9 witness: the first of two areas was removed and a committed, labelled
\* area now stands at position 0.
C9_Witness ==
    /\ op.name = "remove_area"
    /\ op.idx = 0
    /\ Len(areas) = 1
    /\ DOMAIN areas[1] = AreaKeys

---------------------------------------------------------------------------

Integrated == op.name = "integrate_joined_data"

\* a window of two full days at one hour, 49 samples, and one area
TwoFullDays ==
    /\ Integrated
    /\ freq = "1h"
    /\ max_date = min_date + 2
    /\ Len(areas) = 1
    /\ Len(joined_area_data.index) = 49

\* area_0_irradiation at hour h of day d
Sample(d, h) ==
    joined_area_data.columns[IrradiationCol(0)][
        CHOOSE k \in Rows(joined_area_data) :
            joined_area_data.index[k] = d * 1440 + h * 60]

\* the trapezoidal integral, step 3600 s, of the 24 hourly samples of day d,
\* over 3,600,000
DayIntegral(d) ==
    Over(SumSeq([h \in 1..23 |-> (3600 * (Sample(d, h - 1) + Sample(d, h))) \div 2]),
         3600000)

\* C3 as stated: for two full days at one hour and one area the result has
\* exactly 1 day-row, the integral of that day's 24 hourly samples.
C3_OneDayRow ==
    TwoFullDays =>
        /\ err = "none"
        /\ Len(integrated_plot_data.index) = 1
        /\ integrated_plot_data.columns[IntegratedCol(0)][1] = DayIntegral(min_date)

\* C3 amended: for two full days at one hour and one area the result has
\* exactly 2 day-rows, days d and d+1 (only the one-sample bucket of day d+2
\* is dropped), each the trapezoidal integral (step 3600 s) of that day's 24
\* hourly area_0_irradiation samples over 3,600,000.
C3_TwoDayRows ==
    TwoFullDays =>
        /\ err = "none"
        /\ integrated_plot_data.index = <<min_date, min_date + 1>>
        /\ DOMAIN integrated_plot_data.columns = {IntegratedCol(0)}
        /\ integrated_plot_data.columns[IntegratedCol(0)]
             = <<DayIntegral(min_date), DayIntegral(min_date + 1)>>

\* C3 witness: such a window was integrated and the first day's energy is
\* not zero.
C3_Witness ==
    /\ TwoFullDays
    /\ err = "none"
    /\ integrated_plot_data.columns[IntegratedCol(0)][1].num > 0

\* C6: integrate_joined_data fails, and returns no table, on a joined series
\* of 0 or 1 timestamps, whatever the number of areas; on 2 timestamps or
\* more the step check passes and a table with the columns of the areas is
\* returned.
C6_NeedsTwoTimestamps ==
    Integrated =>
        IF Len(joined_area_data.index) < 2
        THEN /\ err \in {"IndexError", "AssertionError"}
             /\ "index" \notin DOMAIN integrated_plot_data
        ELSE /\ err = "none"
             /\ "index" \in DOMAIN integrated_plot_data
             /\ DOMAIN integrated_plot_data.columns = AllCols(Len(areas))

\* C6 witness: a window of one timestamp (start = end) with no area failed
\* the step check.
C6_Witness ==
    /\ Integrated
    /\ Len(joined_area_data.index) = 1
    /\ areas = <<>>
    /\ err = "AssertionError"

---------------------------------------------------------------------------

Triples(as) == [i \in 1..Len(as) |-> <<as[i]["azimuth"], as[i]["elevation"], as[i]["size"]>>]

\* C10: two collections that differ in the azimuth, elevation or size of an
\* area, or in the number or order of areas, never have the same
\* fingerprint list.
C10_FingerprintInjective ==
    op.name = "hash" => (Triples(arg[1]) # Triples(arg[2]) => ret[1] # ret[2])

====
